---- MODULE Spec2Model ----
(***************************************************************************)
(* GitHubStatsCache (scripts/github_stats_cache.py): a directory of JSON   *)
(* files, one per key, each holding {"timestamp": <isoformat>, "data": v}. *)
(* The state is the cache directory on disk, the wall clock, the store     *)
(* instances that were constructed, and a record of the last call made.    *)
(***************************************************************************)
EXTENDS Integers, Sequences, FiniteSets, TLC

VARIABLES
    dirExists,      \* os.path.exists(cache_dir)
    files,          \* file name -> content of that file in cache_dir (NoFile: none)
    now,            \* datetime.now(), in hours
    expiry_hours,   \* self.expiry_hours, the configured expiry of this cache_dir
    instances,      \* number of GitHubStatsCache objects constructed so far
    last,           \* the last call: operation, arguments, branch taken, outcome
    lastSet,        \* key -> the last set of that key that returned, if not
                    \*        overwritten or cleared since (history of the calls)
    callers         \* concurrent caller -> the call it is in the middle of: the
                    \*        line it is at and its local variables

vars == <<dirExists, files, now, expiry_hours, instances, last, lastSet, callers>>

----------------------------------------------------------------------------
\* Bounds of the model.

MaxClock == 3           \* the clock runs over 0..MaxClock hours
MaxExpiryHours == 2     \* expiry_hours is drawn from 1..MaxExpiryHours
MaxInstances == 2       \* at most this many constructions

Keys == {"k1", "k2"}
ExpiryChoices == 1 .. MaxExpiryHours

----------------------------------------------------------------------------
\* Python values handed to set: a nesting of container tags ending in a leaf
\* tag, and the leaf's payload.

PyVal(tags, leaf) == [tags |-> tags, leaf |-> leaf]

None == PyVal(<<"None">>, 0)

PyValues ==
    { None,
      PyVal(<<"list", "dict", "int">>, 1),     \* [{"name": 1}]
      PyVal(<<"tuple", "int">>, 1),            \* (1,)
      PyVal(<<"set">>, 1) }                    \* {1}: json cannot encode it

\* json.dump, by type: what JSON text each Python type is written as.
JsonTag(t) ==
    CASE t = "None" -> "null"
      [] t = "int" -> "number"
      [] t = "str" -> "string"
      [] t \in {"list", "tuple"} -> "array"
      [] t \in {"dict", "dict_intkeys"} -> "object"
      [] OTHER -> "unserializable"

\* json.load, by type: what Python type each JSON text is read as.
PyTag(j) ==
    CASE j = "null" -> "None"
      [] j = "number" -> "int"
      [] j = "string" -> "str"
      [] j = "array" -> "list"
      [] j = "object" -> "dict"
      [] OTHER -> "undefined"

\* json.dump raises TypeError on a value it cannot encode.
Serializable(v) == \A i \in 1 .. Len(v.tags) : JsonTag(v.tags[i]) # "unserializable"

json_dump(v) == [tags |-> [i \in 1 .. Len(v.tags) |-> JsonTag(v.tags[i])], leaf |-> v.leaf]

json_load(j) == [tags |-> [i \in 1 .. Len(j.tags) |-> PyTag(j.tags[i])], leaf |-> j.leaf]

----------------------------------------------------------------------------
\* Timestamps. The "timestamp" field of a record on disk is a JSON value:
\* a string in naive ISO format (what isoformat() writes), a string in ISO
\* format with a UTC offset, a string in no ISO format, or not a string.

Stamp(type, t) == [type |-> type, t |-> t]

NoStamp == Stamp("missing", 0)

\* datetime.now().isoformat()
isoformat(t) == Stamp("naive", t)

\* datetime.fromisoformat(x): the datetime parsed, or the exception raised.
fromisoformat(x) ==
    CASE x.type = "naive" -> [exc |-> "none", aware |-> FALSE, t |-> x.t]
      [] x.type = "aware" -> [exc |-> "none", aware |-> TRUE, t |-> x.t]
      [] x.type = "garbage" -> [exc |-> "ValueError", aware |-> FALSE, t |-> 0]
      [] OTHER -> [exc |-> "TypeError", aware |-> FALSE, t |-> 0]

\* timedelta(hours=h), in hours
timedelta(h) == h

----------------------------------------------------------------------------
\* File contents. kind: "absent" (no file), "bytes" (not UTF-8 text),
\* "malformed" (text that is no JSON), "array" (JSON that is no object: a
\* list, a string, a number), "object" (a JSON object, with or without the
\* two fields).

NoData == [tags |-> <<>>, leaf |-> 0]

Content(kind, ts, data) == [kind |-> kind, ts |-> ts, data |-> data]

NoFile == Content("absent", NoStamp, NoData)

\* what a write leaves behind when it stops part-way through the record
Partial == Content("malformed", NoStamp, NoData)

\* the record set writes
Record(t, v) == Content("object", isoformat(t), json_dump(v))

----------------------------------------------------------------------------
\* File names in cache_dir.

Name(stem, ext) == [stem |-> stem, ext |-> ext]

\* a faulty variant of the digest: it hashes a fixed string, not the key
_get_cache_key_fixed(key) == "b637b17af08aced8850c18cccde915da"

\* hashlib.md5(key.encode()).hexdigest()
_get_cache_key(key) ==
    CASE key = "k1" -> "b637b17af08aced8850c18cccde915da"
      [] key = "k2" -> "61620957a1443c946a143cf99a7d24fa"

\* os.path.join(self.cache_dir, f"{cache_key}.json")
_get_cache_path(key) == Name(_get_cache_key(key), "json")

\* a faulty variant of the suffix test: it looks for another extension
endswith_cache(filename) == filename.ext = "cache"

\* filename.endswith('.json')
endswith_json(filename) == filename.ext = "json"

\* files a caller placed in the directory: their names are no hex digests
OtherNames == { Name("notes", "json"), Name("README", "txt") }

EntryNames == { _get_cache_path(k) : k \in Keys }

FileNames == EntryNames \cup OtherNames

\* os.listdir(self.cache_dir)
listdir == { f \in FileNames : files[f] # NoFile }

----------------------------------------------------------------------------
\* The record of a call: its arguments (key, value), the I/O fault it met, the
\* branch of the code it took, the number of files whose content it discarded
\* (removed, or cut to length 0 by open(path, 'w')), and whether it returned
\* (ret: the value returned) or raised (exc: the exception).

Call(op, key, value, fault, branch, removed, outcome, ret, exc) ==
    [op |-> op, key |-> key, value |-> value, fault |-> fault, branch |-> branch,
     removed |-> removed, outcome |-> outcome, ret |-> ret, exc |-> exc]

NoCall == Call("none", "-", None, "none", "-", 0, "-", None, "-")

\* by: the number of instances there were when the set was made
NotSet == [live |-> FALSE, by |-> 0, v |-> None, at |-> 0]

\* A concurrent caller: the call it makes (op, value), the line it is at (pc),
\* its locals (stamp: the time set captured; seen: what was at the path when
\* get tested os.path.exists; buffer: what set has written to its file
\* object; unlinked: the file it holds open was removed under it), and how
\* the call ended.
Caller(op, pc, value, stamp, seen, buffer, unlinked, outcome, ret, exc) ==
    [op |-> op, pc |-> pc, value |-> value, stamp |-> stamp, seen |-> seen,
     buffer |-> buffer, unlinked |-> unlinked, outcome |-> outcome, ret |-> ret, exc |-> exc]

Idle == Caller("none", "idle", None, 0, NoFile, NoFile, FALSE, "-", None, "-")

NumCallers == 2
Callers == 1 .. NumCallers

----------------------------------------------------------------------------
\* get, lines 32-55. What get does on finding content c at the key's path
\* at time t: the branch it takes, whether it removes the file (rm), and
\* what it returns or raises. fault "open": open() fails; fault "remove":
\* os.remove() fails.

Outcome(branch, rm, outcome, ret, exc) ==
    [branch |-> branch, rm |-> rm, outcome |-> outcome, ret |-> ret, exc |-> exc]

\* os.remove(cache_path) in get, and the return None after it
RemoveInGet(branch, fault) ==
    IF fault = "remove"
    THEN Outcome(branch, FALSE, "raise", None, "OSError")
    ELSE Outcome(branch, TRUE, "return", None, "-")

\* lines 51-55: except (json.JSONDecodeError, KeyError, ValueError)
ExceptHandler(exc, fault) ==
    IF exc \in {"JSONDecodeError", "KeyError", "ValueError", "UnicodeDecodeError"}
    THEN RemoveInGet("invalid", fault)
    ELSE Outcome("uncaught", FALSE, "raise", None, exc)

\* a faulty variant of the expiry test: >= where > is meant
IsExpired_ge(t, cached_time, hours) == t - cached_time >= timedelta(hours)

\* a faulty variant of the expiry test: timedelta(days=...) where hours are meant
IsExpired_days(t, cached_time, hours) == t - cached_time > 24 * timedelta(hours)

\* line 45: datetime.now() - cached_time > timedelta(hours=self.expiry_hours)
IsExpired(t, cached_time, hours) == t - cached_time > timedelta(hours)

\* lines 39-50: the body of the try
TryBody(c, t, hours, fault) ==
    IF c.kind = "bytes" THEN ExceptHandler("UnicodeDecodeError", fault)
    ELSE IF c.kind = "malformed" THEN ExceptHandler("JSONDecodeError", fault)
    ELSE IF c.kind # "object" THEN ExceptHandler("TypeError", fault)
    ELSE IF c.ts = NoStamp THEN ExceptHandler("KeyError", fault)
    ELSE LET cached_time == fromisoformat(c.ts) IN
         IF cached_time.exc # "none" THEN ExceptHandler(cached_time.exc, fault)
         ELSE IF cached_time.aware THEN ExceptHandler("TypeError", fault)
         ELSE IF IsExpired(t, cached_time.t, hours) THEN RemoveInGet("expired", fault)
         ELSE IF c.data = NoData THEN ExceptHandler("KeyError", fault)
         ELSE Outcome("hit", FALSE, "return", json_load(c.data), "-")

GetOutcome(c, t, hours, fault) ==
    IF c = NoFile THEN Outcome("miss", FALSE, "return", None, "-")
    ELSE IF fault = "open" THEN Outcome("open", FALSE, "raise", None, "OSError")
    ELSE TryBody(c, t, hours, fault)

\* a faulty variant of get: the file is opened with mode 'a+', which creates
\* an empty file where there is none
get_create(key, fault) ==
    LET cache_path == _get_cache_path(key)
        r == GetOutcome(files[cache_path], now, expiry_hours, fault)
    IN  /\ instances > 0
        /\ files' = IF r.rm THEN [files EXCEPT ![cache_path] = NoFile]
                    ELSE IF r.branch = "miss" THEN [files EXCEPT ![cache_path] = Partial]
                    ELSE files
        /\ last' = Call("get", key, None, fault, r.branch, IF r.rm THEN 1 ELSE 0,
                        r.outcome, r.ret, r.exc)
        /\ UNCHANGED <<dirExists, now, expiry_hours, instances, lastSet, callers>>

\* a faulty variant of get: a hit writes the record back with the time of the
\* read, so that reading an entry prolongs it
get_touch(key, fault) ==
    LET cache_path == _get_cache_path(key)
        r == GetOutcome(files[cache_path], now, expiry_hours, fault)
    IN  /\ instances > 0
        /\ files' = IF r.rm THEN [files EXCEPT ![cache_path] = NoFile]
                    ELSE IF r.branch = "hit" THEN [files EXCEPT ![cache_path].ts = isoformat(now)]
                    ELSE files
        /\ last' = Call("get", key, None, fault, r.branch, IF r.rm THEN 1 ELSE 0,
                        r.outcome, r.ret, r.exc)
        /\ UNCHANGED <<dirExists, now, expiry_hours, instances, lastSet, callers>>

get(key, fault) ==
    LET cache_path == _get_cache_path(key)
        r == GetOutcome(files[cache_path], now, expiry_hours, fault)
    IN  /\ instances > 0
        /\ files' = IF r.rm THEN [files EXCEPT ![cache_path] = NoFile] ELSE files
        /\ last' = Call("get", key, None, fault, r.branch, IF r.rm THEN 1 ELSE 0,
                        r.outcome, r.ret, r.exc)
        /\ UNCHANGED <<dirExists, now, expiry_hours, instances, lastSet, callers>>

----------------------------------------------------------------------------
\* set, lines 57-67. open(cache_path, 'w') creates the file or truncates the
\* one that is there. fault "open": open fails, nothing is written; fault
\* "write": the write or the close fails after the file was truncated. json.dump writes the record piece by piece and raises TypeError
\* at the first value it cannot encode, after the pieces before it.

SetResult(content, branch, outcome, exc) ==
    [content |-> content, branch |-> branch, outcome |-> outcome, exc |-> exc]

\* a faulty variant of set: the record is encoded with json.dumps before the
\* file is opened, so a value that cannot be encoded leaves the file alone
SetOutcome_dumps(old, t, value, fault) ==
    IF ~Serializable(value) THEN SetResult(old, "encode", "raise", "TypeError")
    ELSE IF fault = "open" THEN SetResult(old, "open", "raise", "OSError")
    ELSE IF fault = "write" THEN SetResult(Partial, "write", "raise", "OSError")
    ELSE SetResult(Record(t, value), IF old = NoFile THEN "created" ELSE "replaced", "return", "-")

\* a faulty variant of set: the file is opened with mode 'a', so the record is
\* written after what the file held (two JSON documents in a row do not parse)
SetOutcome_append(old, t, value, fault) ==
    IF fault = "open" THEN SetResult(old, "open", "raise", "OSError")
    ELSE IF ~Serializable(value) THEN SetResult(Partial, "encode", "raise", "TypeError")
    ELSE IF fault = "write" THEN SetResult(Partial, "write", "raise", "OSError")
    ELSE IF old = NoFile THEN SetResult(Record(t, value), "created", "return", "-")
    ELSE SetResult(Content("malformed", NoStamp, NoData), "replaced", "return", "-")

\* a faulty variant of set: the write sits in a try block that swallows OSError
SetOutcome_swallow(old, t, value, fault) ==
    IF fault = "open" THEN SetResult(old, "open", "return", "-")
    ELSE IF ~Serializable(value) THEN SetResult(Partial, "encode", "raise", "TypeError")
    ELSE IF fault = "write" THEN SetResult(Partial, "write", "return", "-")
    ELSE SetResult(Record(t, value), IF old = NoFile THEN "created" ELSE "replaced", "return", "-")

SetOutcome(old, t, value, fault) ==
    IF fault = "open" THEN SetResult(old, "open", "raise", "OSError")
    ELSE IF ~Serializable(value) THEN SetResult(Partial, "encode", "raise", "TypeError")
    ELSE IF fault = "write" THEN SetResult(Partial, "write", "raise", "OSError")
    ELSE SetResult(Record(t, value), IF old = NoFile THEN "created" ELSE "replaced", "return", "-")

set(key, value, fault) ==
    LET cache_path == _get_cache_path(key)
        r == SetOutcome(files[cache_path], now, value, fault)
    IN  /\ instances > 0
        /\ files' = [files EXCEPT ![cache_path] = r.content]
        /\ last' = Call("set", key, value, fault, r.branch,
                        IF files[cache_path] \notin {NoFile, r.content} THEN 1 ELSE 0,
                        r.outcome, None, r.exc)
        /\ lastSet' = [lastSet EXCEPT ![key] =
                          IF r.outcome = "return"
                          THEN [live |-> TRUE, by |-> instances, v |-> value, at |-> now]
                          ELSE IF r.content = files[cache_path] THEN @ ELSE NotSet]
        /\ UNCHANGED <<dirExists, now, expiry_hours, instances, callers>>

----------------------------------------------------------------------------
\* clear, lines 69-73. fault "remove": os.remove fails on one of the files, after
\* the files listed before it were removed; os.listdir lists in no fixed order.

ClearedNames == { f \in listdir : endswith_json(f) }

clear(fault) ==
    /\ instances > 0
    /\ IF fault = "remove"
       THEN \E failed \in ClearedNames : \E done \in SUBSET (ClearedNames \ {failed}) :
              /\ files' = [f \in FileNames |-> IF f \in done THEN NoFile ELSE files[f]]
              /\ last' = Call("clear", "-", None, fault, "remove", Cardinality(done),
                              "raise", None, "OSError")
       ELSE /\ files' = [f \in FileNames |-> IF f \in ClearedNames THEN NoFile ELSE files[f]]
            /\ last' = Call("clear", "-", None, fault, "cleared", Cardinality(ClearedNames),
                            "return", None, "-")
    /\ lastSet' = [k \in Keys |-> NotSet]
    /\ UNCHANGED <<dirExists, now, expiry_hours, instances, callers>>

----------------------------------------------------------------------------
\* __init__, lines 15-21: os.makedirs unless the path exists.

\* os.makedirs(self.cache_dir): the directory exists afterwards, and is empty
MakeDirs == [exists |-> TRUE, files |-> [f \in FileNames |-> NoFile]]

\* a faulty variant of __init__: it makes the directory afresh every time
__init__fresh ==
    /\ instances < MaxInstances
    /\ instances' = instances + 1
    /\ dirExists' = MakeDirs.exists
    /\ files' = MakeDirs.files
    /\ last' = Call("__init__", "-", None, "none",
                    IF dirExists THEN "exists" ELSE "makedirs", 0, "return", None, "-")
    /\ UNCHANGED <<now, expiry_hours, lastSet, callers>>

__init__ ==
    LET d == IF ~dirExists THEN MakeDirs ELSE [exists |-> dirExists, files |-> files]
    IN  /\ instances < MaxInstances
        /\ instances' = instances + 1
        /\ dirExists' = d.exists
        /\ files' = d.files
        /\ last' = Call("__init__", "-", None, "none",
                        IF dirExists THEN "exists" ELSE "makedirs", 0, "return", None, "-")
        /\ UNCHANGED <<now, expiry_hours, lastSet, callers>>

----------------------------------------------------------------------------
\* The environment: the wall clock, and a caller writing files into the
\* directory behind the store's back.

Tick ==
    /\ now < MaxClock
    /\ now' = now + 1
    /\ last' = [NoCall EXCEPT !.op = "tick"]
    /\ UNCHANGED <<dirExists, files, expiry_hours, instances, lastSet, callers>>

\* contents a caller can put at an entry's path
ForeignContents ==
    { Content("bytes", NoStamp, NoData),
      Content("array", NoStamp, NoData),
      Content("object", NoStamp, json_dump(None)),            \* no "timestamp"
      Content("object", Stamp("garbage", 0), json_dump(None)),
      Content("object", Stamp("number", 0), NoData),          \* no "data" either
      Content("object", Stamp("aware", 0), json_dump(None)),
      Content("object", isoformat(MaxClock), NoData) }        \* no "data", not expired

ExternalWrite(filename, c) ==
    /\ dirExists
    /\ files' = [files EXCEPT ![filename] = c]
    /\ last' = [NoCall EXCEPT !.op = "external"]
    /\ lastSet' = [k \in Keys |-> IF _get_cache_path(k) = filename THEN NotSet ELSE lastSet[k]]
    /\ UNCHANGED <<dirExists, now, expiry_hours, instances, callers>>

----------------------------------------------------------------------------
Init ==
    /\ dirExists = FALSE
    /\ files = [f \in FileNames |-> NoFile]
    /\ now = 0
    /\ expiry_hours \in ExpiryChoices
    /\ instances = 0
    /\ last = NoCall
    /\ lastSet = [k \in Keys |-> NotSet]
    /\ callers = [c \in Callers |-> Idle]

\* The store's operations and the clock, with no I/O failure and nobody else
\* writing into the directory.
Next ==
    \/ __init__
    \/ \E key \in Keys : get(key, "none")
    \/ \E key \in Keys, value \in PyValues : set(key, value, "none")
    \/ clear("none")
    \/ Tick

Spec == Init /\ [][Next]_vars

\* ... and a caller writing files of its own into the directory.
NextEnv ==
    \/ Next
    \/ \E f \in EntryNames, c \in ForeignContents : ExternalWrite(f, c)
    \/ \E f \in OtherNames : ExternalWrite(f, Content("malformed", NoStamp, NoData))

SpecEnv == Init /\ [][NextEnv]_vars

\* The store's operations with writes that fail: open(cache_path, 'w') or the
\* write itself raising OSError.
FaultValues == { None, PyVal(<<"set">>, 1) }

NextIO ==
    \/ Next
    \/ \E key \in Keys, value \in FaultValues, fault \in {"open", "write"} : set(key, value, fault)

SpecIO == Init /\ [][NextIO]_vars

\* The store's operations with reads and deletes that fail: open(cache_path, 'r')
\* or os.remove raising OSError.
NextCleanup ==
    \/ Next
    \/ \E key \in Keys, fault \in {"open", "remove"} : get(key, fault)
    \/ clear("remove")

SpecCleanup == Init /\ [][NextCleanup]_vars

----------------------------------------------------------------------------
\* Concurrent callers. get and set are not atomic: each is a sequence of
\* system calls on the key's path, and the calls of several callers (threads of
\* one process, or processes sharing cache_dir) interleave line by line. Each
\* caller makes one call, on the same key; the clock does not advance while
\* the calls are in flight.

RaceKey == "k1"

RaceValues == { None, PyVal(<<"list", "dict", "int">>, 1), PyVal(<<"set">>, 1) }

\* what the directory can hold at the key's path when the calls begin: nothing,
\* a record written at hour 0, or a file cut short
RaceContents == { NoFile, Partial } \cup { Record(0, v) : v \in { w \in RaceValues : Serializable(w) } }

\* number of characters json.dump writes for a value, by type:
\* null, 1, "abc", [x], {"name": x}
TagLen(j) ==
    CASE j = "null" -> 4
      [] j = "number" -> 1
      [] j = "string" -> 5
      [] j = "array" -> 2
      [] j = "object" -> 10
      [] OTHER -> 0

JsonLen(j) ==
    LET sum[i \in 0 .. Len(j.tags)] == IF i = 0 THEN 0 ELSE sum[i - 1] + TagLen(j.tags[i])
    IN  sum[Len(j.tags)]

\* length of a file, counted from the end of '{"timestamp": "...", "data": '
\* (isoformat() strings written by set all have the same length)
FileLen(c) == JsonLen(c.data)

\* f.write at offset 0 of a file that holds old, without truncating it: what
\* lies beyond the end of the new text stays
WriteAt0(old, new) ==
    IF FileLen(old) > FileLen(new) THEN Content("malformed", NoStamp, old.data) ELSE new

\* the callers that hold the file at the key's path open for writing
Writers == { c \in Callers : callers[c].op = "set" /\ callers[c].pc \in {"dump", "close"}
                              /\ ~callers[c].unlinked }

\* the call of caller c ends
Finish(c, branch, removed, outcome, ret, exc) ==
    /\ callers' = [callers EXCEPT ![c].pc = "done", ![c].outcome = outcome,
                                  ![c].ret = ret, ![c].exc = exc]
    /\ last' = Call(callers[c].op, RaceKey, callers[c].value, "none", branch, removed,
                    outcome, ret, exc)

call_get(c) ==
    /\ instances > 0
    /\ callers[c].pc = "idle"
    /\ callers' = [callers EXCEPT ![c].op = "get", ![c].pc = "exists"]
    /\ UNCHANGED <<dirExists, files, now, expiry_hours, instances, last, lastSet>>

call_set(c, value) ==
    /\ instances > 0
    /\ callers[c].pc = "idle"
    /\ callers' = [callers EXCEPT ![c].op = "set", ![c].pc = "open", ![c].value = value]
    /\ UNCHANGED <<dirExists, files, now, expiry_hours, instances, last, lastSet>>

\* lines 34-37: if not os.path.exists(cache_path): return None
get_exists(c) ==
    LET cache_path == _get_cache_path(RaceKey) IN
    /\ callers[c].op = "get" /\ callers[c].pc = "exists"
    /\ IF files[cache_path] = NoFile
       THEN Finish(c, "miss", 0, "return", None, "-")
       ELSE /\ callers' = [callers EXCEPT ![c].pc = "read", ![c].seen = files[cache_path]]
            /\ UNCHANGED last
    /\ UNCHANGED <<dirExists, files, now, expiry_hours, instances, lastSet>>

\* lines 39-45 and 50: open, json.load, the expiry test, return cache_data['data'].
\* open raises FileNotFoundError, an OSError, when the file is gone by now.
get_read(c) ==
    LET cache_path == _get_cache_path(RaceKey)
        r == TryBody(files[cache_path], now, expiry_hours, "none")
    IN
    /\ callers[c].op = "get" /\ callers[c].pc = "read"
    /\ IF files[cache_path] = NoFile
       THEN Finish(c, "open", 0, "raise", None, "FileNotFoundError")
       ELSE IF r.branch = "expired"
       THEN callers' = [callers EXCEPT ![c].pc = "remove"] /\ UNCHANGED last
       ELSE IF r.branch = "invalid"
       THEN callers' = [callers EXCEPT ![c].pc = "handler"] /\ UNCHANGED last
       ELSE Finish(c, r.branch, 0, r.outcome, r.ret, r.exc)
    /\ UNCHANGED <<dirExists, files, now, expiry_hours, instances, lastSet>>

\* os.remove(cache_path) and the return None after it. The file is gone:
\* FileNotFoundError. A writer holds it open: the name is unlinked under the
\* writer, whose data no longer reaches the path (POSIX), or the removal is
\* refused with PermissionError (Windows).
os_remove(c, branch) ==
    LET cache_path == _get_cache_path(RaceKey) IN
    \/ /\ files[cache_path] = NoFile
       /\ Finish(c, branch, 0, "raise", None, "FileNotFoundError")
       /\ UNCHANGED files
    \/ /\ files[cache_path] # NoFile
       /\ files' = [files EXCEPT ![cache_path] = NoFile]
       /\ callers' = [d \in Callers |->
                        IF d = c
                        THEN [callers[c] EXCEPT !.pc = "done", !.outcome = "return", !.ret = None]
                        ELSE IF d \in Writers THEN [callers[d] EXCEPT !.unlinked = TRUE]
                        ELSE callers[d]]
       /\ last' = Call("get", RaceKey, None, "none", branch, 1, "return", None, "-")
    \/ /\ files[cache_path] # NoFile /\ Writers # {}
       /\ Finish(c, branch, 0, "raise", None, "PermissionError")
       /\ UNCHANGED files

\* lines 47-48
get_remove(c) ==
    /\ callers[c].op = "get" /\ callers[c].pc = "remove"
    /\ os_remove(c, "expired")
    /\ UNCHANGED <<dirExists, now, expiry_hours, instances, lastSet>>

\* line 53: if os.path.exists(cache_path), else line 55
get_handler(c) ==
    LET cache_path == _get_cache_path(RaceKey) IN
    /\ callers[c].op = "get" /\ callers[c].pc = "handler"
    /\ IF files[cache_path] = NoFile
       THEN Finish(c, "invalid", 0, "return", None, "-")
       ELSE callers' = [callers EXCEPT ![c].pc = "handler_remove"] /\ UNCHANGED last
    /\ UNCHANGED <<dirExists, files, now, expiry_hours, instances, lastSet>>

\* lines 54-55
get_handler_remove(c) ==
    /\ callers[c].op = "get" /\ callers[c].pc = "handler_remove"
    /\ os_remove(c, "invalid")
    /\ UNCHANGED <<dirExists, now, expiry_hours, instances, lastSet>>

\* lines 59-66: the timestamp is taken, and open(cache_path, 'w') creates the
\* file or cuts the one that is there to length 0
set_open(c) ==
    LET cache_path == _get_cache_path(RaceKey) IN
    /\ callers[c].op = "set" /\ callers[c].pc = "open"
    /\ files' = [files EXCEPT ![cache_path] = Partial]
    /\ lastSet' = [lastSet EXCEPT ![RaceKey] = NotSet]
    /\ callers' = [callers EXCEPT ![c].pc = "dump", ![c].stamp = now,
                                  ![c].seen = files[cache_path]]
    /\ UNCHANGED <<dirExists, now, expiry_hours, instances, last>>

\* line 67: json.dump writes into the file object's buffer, up to the first
\* value it cannot encode
set_dump(c) ==
    /\ callers[c].op = "set" /\ callers[c].pc = "dump"
    /\ callers' = [callers EXCEPT
                     ![c].pc = "close",
                     ![c].buffer = IF Serializable(callers[c].value)
                                   THEN Record(callers[c].stamp, callers[c].value)
                                   ELSE Partial,
                     ![c].exc = IF Serializable(callers[c].value) THEN "-" ELSE "TypeError"]
    /\ UNCHANGED <<dirExists, files, now, expiry_hours, instances, last, lastSet>>

\* the end of the with block: the buffer is written at offset 0 of the file
\* that was opened, the file is closed, and set returns or the TypeError goes on
set_close(c) ==
    LET cache_path == _get_cache_path(RaceKey)
        ok == callers[c].exc = "-"
    IN
    /\ callers[c].op = "set" /\ callers[c].pc = "close"
    /\ files' = IF callers[c].unlinked THEN files
                ELSE [files EXCEPT ![cache_path] = WriteAt0(@, callers[c].buffer)]
    /\ Finish(c, IF ok THEN "written" ELSE "encode", 0,
              IF ok THEN "return" ELSE "raise", None, callers[c].exc)
    /\ lastSet' = [lastSet EXCEPT ![RaceKey] =
                     IF ok /\ files'[cache_path] = callers[c].buffer
                     THEN [live |-> TRUE, by |-> instances, v |-> callers[c].value,
                           at |-> callers[c].stamp]
                     ELSE NotSet]
    /\ UNCHANGED <<dirExists, now, expiry_hours, instances>>

\* One store on an existing directory, at any hour, with or without an entry
\* for the key.
InitRace ==
    /\ dirExists = TRUE
    /\ \E c \in RaceContents :
         /\ files = [f \in FileNames |-> IF f = _get_cache_path(RaceKey) THEN c ELSE NoFile]
         /\ lastSet = [k \in Keys |->
                         IF k = RaceKey /\ c.kind = "object"
                         THEN [live |-> TRUE, by |-> 1, v |-> json_load(c.data), at |-> c.ts.t]
                         ELSE NotSet]
    /\ now \in 0 .. MaxClock
    /\ expiry_hours \in ExpiryChoices
    /\ instances = 1
    /\ last = NoCall
    /\ callers = [c \in Callers |-> Idle]

NextRace ==
    \E c \in Callers :
        \/ call_get(c)
        \/ \E value \in RaceValues : call_set(c, value)
        \/ get_exists(c)
        \/ get_read(c)
        \/ get_remove(c)
        \/ get_handler(c)
        \/ get_handler_remove(c)
        \/ set_open(c)
        \/ set_dump(c)
        \/ set_close(c)

SpecRace == InitRace /\ [][NextRace]_vars

----------------------------------------------------------------------------
\* Vocabulary of the properties.

\* the values JSON has a type for: null, numbers, strings, arrays, objects
JsonNative(v) == \A i \in 1 .. Len(v.tags) : v.tags[i] \in {"None", "int", "str", "list", "dict"}

\* get hands back None for "absent": a caller sees "found" when it gets anything else
ReportsFound(call) == call.outcome = "return" /\ call.ret # None
ReportsAbsent(call) == call.outcome = "return" /\ call.ret = None

EntryOf(key) == files[_get_cache_path(key)]

NoEntries == \A k \in Keys : EntryOf(k) = NoFile

\* an entry with a readable timestamp that is older than the configured expiry
Stale(c) == c.kind = "object" /\ c.ts.type = "naive" /\ now - c.ts.t > expiry_hours

\* malformed serialization, a record without "timestamp" or without "data",
\* or a timestamp string in no ISO format
Corrupt(c) ==
    \/ c.kind \in {"bytes", "malformed"}
    \/ c.kind = "object" /\ (c.ts.type \in {"missing", "garbage"} \/ c.data = NoData)

\* a complete record with a readable timestamp, not older than the expiry
Fresh(c) ==
    /\ c.kind = "object" /\ c.ts.type = "naive" /\ c.data # NoData
    /\ now - c.ts.t <= expiry_hours

\* <hex-digest-of-key>.json
IsEntryName(f) == f.ext = "json" /\ f.stem \in { _get_cache_key(k) : k \in Keys }

----------------------------------------------------------------------------
\* C1: set(k, v) followed at once by get(k) returns v and reports it as found,
\* for every value v that JSON has a type for, None included.
C1_RoundTrip ==
    [][ ( /\ last.op = "set" /\ last.outcome = "return" /\ JsonNative(last.value)
          /\ last'.op = "get" /\ last'.key = last.key )
        => ( ReportsFound(last') /\ last'.ret = last.value ) ]_vars

\* C2: a get that observes an entry older than the expiry returns "absent", and
\* the entry's file is gone when it returns.
C2_StaleNeverServed ==
    [][ \A k \in Keys :
          ( last'.op = "get" /\ last'.key = k /\ Stale(EntryOf(k)) )
          => ( ReportsAbsent(last') /\ files'[_get_cache_path(k)] = NoFile ) ]_vars

C2_Witness ==
    /\ last.op = "get" /\ last.branch = "expired" /\ last.removed = 1
    /\ lastSet[last.key].live /\ now - lastSet[last.key].at > expiry_hours
    /\ ReportsAbsent(last) /\ EntryOf(last.key) = NoFile

\* C3: for an entry set at time T and not overwritten or cleared since, a get
\* strictly before T + D returns the value with found = true and leaves the
\* file in place; a get strictly after T + D returns found = false and the
\* file is gone afterwards.
C3_ExpiryBoundary ==
    [][ \A k \in Keys :
          ( last'.op = "get" /\ last'.key = k /\ lastSet[k].live /\ JsonNative(lastSet[k].v) )
          => /\ now < lastSet[k].at + expiry_hours
                => ( /\ ReportsFound(last') /\ last'.ret = lastSet[k].v
                     /\ files'[_get_cache_path(k)] = EntryOf(k) /\ EntryOf(k) # NoFile )
             /\ now > lastSet[k].at + expiry_hours
                => ( ReportsAbsent(last') /\ files'[_get_cache_path(k)] = NoFile ) ]_vars

\* C4: get on a structurally invalid file (malformed serialization, a record
\* without timestamp or data, an unparseable timestamp) returns "absent" and
\* has removed the file.
C4_CorruptionSelfHeal ==
    [][ \A k \in Keys :
          ( last'.op = "get" /\ last'.key = k /\ Corrupt(EntryOf(k)) )
          => ( ReportsAbsent(last') /\ files'[_get_cache_path(k)] = NoFile ) ]_vars

\* C5: whatever the entry file holds, get returns (a value or "absent") and
\* raises nothing.
C5_GetNeverRaises == last.op = "get" => last.outcome = "return"

\* C6: a set or a get on one key leaves every other key's entry file as it
\* was, and get(k) returns the value last set for k whatever was set for the
\* other keys in between.
C6_KeyIsolation ==
    [][ \A k \in Keys :
          ( last'.op \in {"get", "set"} /\ last'.key = k )
          => /\ \A k2 \in Keys \ {k} : files'[_get_cache_path(k2)] = EntryOf(k2)
             /\ ( /\ last'.op = "get" /\ lastSet[k].live /\ JsonNative(lastSet[k].v)
                  /\ now <= lastSet[k].at + expiry_hours )
                => ( last'.outcome = "return" /\ last'.ret = lastSet[k].v ) ]_vars

C6_Witness ==
    /\ last.op = "get" /\ last.key = "k1" /\ last.branch = "hit"
    /\ lastSet["k1"].live /\ lastSet["k2"].live
    /\ lastSet["k1"].v # lastSet["k2"].v
    /\ last.ret = lastSet["k1"].v
    /\ EntryOf("k2") = Record(lastSet["k2"].at, lastSet["k2"].v)

\* C7: a completed clear leaves no entry file, none appears until the next
\* set, and until then get returns "absent" for every key.
C7_ClearEmpties ==
    [][ /\ ( last'.op = "clear" /\ last'.outcome = "return" )
           => \A k \in Keys : files'[_get_cache_path(k)] = NoFile
        /\ ( NoEntries /\ last'.op # "set" )
           => \A k \in Keys : files'[_get_cache_path(k)] = NoFile
        /\ ( NoEntries /\ last'.op = "get" ) => ReportsAbsent(last') ]_vars

C7_Witness ==
    /\ last.op = "clear" /\ last.outcome = "return" /\ last.removed = Cardinality(Keys)
    /\ NoEntries

\* C8: clear removes exactly the files named <hex-digest-of-key>.json; every
\* other file survives, one named *.json included, and the directory stays.
C8_ClearOnlyEntries ==
    [][ ( last'.op = "clear" /\ last'.outcome = "return" )
        => /\ dirExists'
           /\ \A f \in FileNames :
                files'[f] = (IF IsEntryName(f) THEN NoFile ELSE files[f]) ]_vars

\* C9: set raises whenever it could not persist the record; when it returns,
\* the key's entry file holds {timestamp: the time of the call, data: v}.
C9_WriteFailuresSurface ==
    last.op = "set"
    => /\ ( last.fault # "none" \/ ~Serializable(last.value) ) => last.outcome = "raise"
       /\ last.outcome \in {"return", "raise"}
       /\ last.outcome = "return"
          => EntryOf(last.key) = Content("object", Stamp("naive", now), json_dump(last.value))

C9_Witness ==
    /\ last.op = "set" /\ last.fault = "write" /\ last.outcome = "raise"
    /\ EntryOf(last.key) # Content("object", Stamp("naive", now), json_dump(last.value))

\* C10: constructing a store creates the directory when it is missing, and
\* changes nothing on disk when it exists.
C10_ConstructIdempotent ==
    [][ last'.op = "__init__"
        => /\ last'.outcome = "return" /\ dirExists'
           /\ dirExists => files' = files ]_vars

C10_Witness ==
    /\ last.op = "__init__" /\ last.branch = "exists" /\ dirExists
    /\ instances > 1 /\ ~NoEntries

\* C11: the storage path is a function of the key string alone, so an entry
\* written through one store instance is found at that path, and returned, by a
\* get made after a later instance was constructed on the same directory, as
\* long as the entry is within its expiry.
C11_PersistsAcrossInstances ==
    [][ \A k \in Keys :
          ( /\ last'.op = "get" /\ last'.key = k
            /\ lastSet[k].live /\ instances > lastSet[k].by
            /\ JsonNative(lastSet[k].v)
            /\ now <= lastSet[k].at + expiry_hours )
          => ( /\ EntryOf(k) = Record(lastSet[k].at, lastSet[k].v)
               /\ last'.branch = "hit" /\ last'.outcome = "return"
               /\ last'.ret = lastSet[k].v ) ]_vars

C11_Witness ==
    /\ last.op = "get" /\ last.branch = "hit"
    /\ lastSet[last.key].live /\ instances > lastSet[last.key].by
    /\ last.ret = lastSet[last.key].v /\ last.ret # None

\* C12: a key has at most one entry file, and a set that returns on a key that
\* already has an entry leaves at its path exactly the new record (the time of
\* the call, the new data) whatever the file held before; it adds no other
\* file and changes no other file.
C12_OneEntryPerKey ==
    [][ \A k \in Keys :
          /\ Cardinality({ f \in FileNames : files'[f] # NoFile /\ f.stem = _get_cache_key(k) }) <= 1
          /\ ( last'.op = "set" /\ last'.key = k /\ last'.outcome = "return" )
             => /\ files'[_get_cache_path(k)] = Record(now, last'.value)
                /\ \A f \in FileNames \ {_get_cache_path(k)} : files'[f] = files[f] ]_vars

C12_Witness ==
    /\ last.op = "set" /\ last.branch = "replaced" /\ last.outcome = "return"
    /\ now > 0
    /\ EntryOf(last.key) = Record(now, last.value)
    /\ Cardinality({ f \in listdir : IsEntryName(f) }) = Cardinality(Keys)

\* C13: when concurrent get calls meet the same expired or corrupt entry, every
\* one of them returns "absent" and none raises, in whatever order their
\* existence checks, reads and deletes interleave.
C13_ConcurrentGetsSafe ==
    ( \A d \in Callers : callers[d].op \in {"none", "get"} )
    => \A c \in Callers :
         ( /\ callers[c].op = "get" /\ callers[c].pc = "done"
           /\ ( Stale(callers[c].seen) \/ Corrupt(callers[c].seen) ) )
         => ReportsAbsent(callers[c])

\* C14: once two concurrent set calls on one key have both returned, the
\* entry file holds the complete record of the call that finished last, never
\* an empty, a cut or a mixed one.
C14_LastWriteWins ==
    ( \A c \in Callers : /\ callers[c].op = "set" /\ callers[c].pc = "done"
                         /\ callers[c].outcome = "return" )
    => /\ last.op = "set"
       /\ \E c \in Callers : /\ callers[c].value = last.value
                             /\ EntryOf(RaceKey) = Record(callers[c].stamp, last.value)

\* C15: a get that found the entry expired or corrupt returns "absent" and
\* raises nothing, also when the removal of the entry file fails.
C15_BestEffortCleanup ==
    ( last.op = "get" /\ last.branch \in {"expired", "invalid"} ) => ReportsAbsent(last)

\* C16: in every step, an entry file that was there before the step and is
\* not there after it was removed by clear, or by a get on its key that found
\* it expired or corrupt; set and construction remove no file, and a get
\* removes no complete, unexpired entry.
C16_RemovalTriggers ==
    [][ /\ \A k \in Keys :
             ( EntryOf(k) # NoFile /\ files'[_get_cache_path(k)] = NoFile )
             => \/ last'.op = "clear"
                \/ /\ last'.op = "get" /\ last'.key = k
                   /\ Stale(EntryOf(k)) \/ Corrupt(EntryOf(k))
        /\ last'.op \in {"set", "__init__"}
           => \A f \in FileNames : files[f] # NoFile => files'[f] # NoFile
        /\ ( last'.op = "get" /\ Fresh(EntryOf(last'.key)) ) => files' = files ]_vars

C16_Witness ==
    /\ last.op = "get" /\ last.branch = "hit" /\ last.removed = 0
    /\ lastSet[last.key].live /\ now = lastSet[last.key].at + expiry_hours
    /\ EntryOf(last.key) = Record(lastSet[last.key].at, lastSet[last.key].v)

\* C17: a get changes nothing on disk except that it may delete its own key's
\* entry file: no file is created, no content changes, the directory stays.
\* With no file at the path it returns "absent" and changes nothing; on a
\* complete, unexpired entry it returns the data field as stored and changes
\* nothing.
C17_GetReadOnly ==
    [][ last'.op = "get"
        => LET cache_path == _get_cache_path(last'.key) IN
           /\ dirExists' = dirExists
           /\ \A f \in FileNames \ {cache_path} : files'[f] = files[f]
           /\ files'[cache_path] \in {files[cache_path], NoFile}
           /\ files[cache_path] = NoFile => ( ReportsAbsent(last') /\ files' = files )
           /\ Fresh(files[cache_path])
              => ( /\ last'.outcome = "return"
                   /\ last'.ret = json_load(files[cache_path].data)
                   /\ files' = files ) ]_vars

C17_Witness ==
    /\ last.op = "get" /\ last.branch = "miss" /\ ReportsAbsent(last)
    /\ EntryOf(last.key) = NoFile
    /\ \E k \in Keys \ {last.key} : Fresh(EntryOf(k))

\* C18: a set that fails leaves the entry the key had before the call as it
\* was.
C18_FailedSetKeepsEntry ==
    [][ \A k \in Keys :
          ( last'.op = "set" /\ last'.key = k /\ last'.outcome = "raise" /\ lastSet[k].live )
          => files'[_get_cache_path(k)] = EntryOf(k) ]_vars

\* C18, amended: a set that fails in open() leaves the key's entry as it was,
\* and a get that follows, within the expiry, returns the value stored before;
\* a set that fails after open() (a value json cannot encode, a write that
\* fails part-way) has destroyed the entry: the file holds an incomplete
\* record, and a get that follows returns "absent" and removes the file.
C18_FailedSetAfterOpenDestroys ==
    [][ \A k \in Keys :
          /\ ( last'.op = "set" /\ last'.key = k /\ last'.outcome = "raise" )
             => /\ \A f \in FileNames \ {_get_cache_path(k)} : files'[f] = files[f]
                /\ files'[_get_cache_path(k)] =
                      (IF last'.fault = "open" THEN EntryOf(k) ELSE Partial)
          /\ ( /\ last.op = "set" /\ last.key = k /\ last.outcome = "raise"
               /\ last'.op = "get" /\ last'.key = k )
             => IF last.fault = "open"
                THEN ( /\ lastSet[k].live /\ JsonNative(lastSet[k].v)
                       /\ now <= lastSet[k].at + expiry_hours )
                     => ( last'.outcome = "return" /\ last'.ret = lastSet[k].v )
                ELSE ReportsAbsent(last') /\ files'[_get_cache_path(k)] = NoFile ]_vars

C18_Witness ==
    /\ last.op = "set" /\ last.outcome = "raise" /\ last.fault = "write"
    /\ last.removed = 1
    /\ EntryOf(last.key) = Partial

\* C19: the expiry is counted from the last set of the key that returned: a
\* get that hits leaves the stored timestamp as it is, a returning set stores
\* the time of the call, and whatever was read in between, a get returns the
\* value up to T + D and "absent" at every time after T + D, T being the time
\* of that set.
C19_AbsoluteExpiry ==
    [][ \A k \in Keys :
          /\ ( last'.op = "get" /\ last'.key = k /\ last'.branch = "hit" )
             => files'[_get_cache_path(k)] = EntryOf(k)
          /\ ( last'.op = "set" /\ last'.key = k /\ last'.outcome = "return" )
             => files'[_get_cache_path(k)].ts = isoformat(now)
          /\ ( last'.op = "get" /\ last'.key = k /\ lastSet[k].live )
             => /\ EntryOf(k) # NoFile => EntryOf(k).ts = isoformat(lastSet[k].at)
                /\ now > lastSet[k].at + expiry_hours => ReportsAbsent(last')
                /\ ( now <= lastSet[k].at + expiry_hours /\ JsonNative(lastSet[k].v) )
                   => ( last'.outcome = "return" /\ last'.ret = lastSet[k].v ) ]_vars

C19_Witness ==
    /\ last.op = "get" /\ last.branch = "hit" /\ last.ret # None
    /\ lastSet[last.key].live /\ lastSet[last.key].at > 0
    /\ now = lastSet[last.key].at + expiry_hours
    /\ EntryOf(last.key).ts = isoformat(lastSet[last.key].at)

\* C20: when a get and a set on one key run concurrently, the get returns
\* "absent", the value stored before or the value being set, and raises
\* nothing; and once the set has returned, the entry file holds its record.
C20_GetRacingSet ==
    \A g \in Callers, s \in Callers :
       ( /\ callers[g].op = "get" /\ callers[g].pc = "done"
         /\ callers[s].op = "set" /\ callers[s].pc = "done" /\ callers[s].outcome = "return" )
       => /\ callers[g].outcome = "return"
          /\ \/ callers[g].ret = None
             \/ callers[g].ret = json_load(json_dump(callers[s].value))
             \/ callers[s].seen.kind = "object" /\ callers[g].ret = json_load(callers[s].seen.data)
          /\ EntryOf(RaceKey) = Record(callers[s].stamp, callers[s].value)

====
